---- MODULE Spec2Model ----
(***************************************************************************)
(* Currency conversion widget (src/unnamed/part_000, the version with the  *)
(* trend chart; src/script.js is the same controller without the chart).   *)
(*                                                                         *)
(* The state is the part of the DOM the script reads and writes (the two   *)
(* form fields, the submit button, the four regions, the five result       *)
(* spans), the module-level chart handle, and the conversions suspended at *)
(* one of the two awaits of convertCurrency.                               *)
(*                                                                         *)
(* A JavaScript number is a fraction [num, den] with den >= 0; den = 0     *)
(* stands for the non-finite values (num > 0: Infinity, num < 0:           *)
(* -Infinity, num = 0: NaN).                                               *)
(***************************************************************************)
EXTENDS Integers, Sequences, FiniteSets, TLC

VARIABLES
    amountInput,      \* amountInput.value, a sequence of characters
    currencySelect,   \* currencySelect.value
    convertBtn,       \* [disabled]
    loadingDiv,       \* [hidden]
    resultDiv,        \* [hidden]
    errorDiv,         \* [hidden, text]
    chartSection,     \* [hidden]
    spans,            \* textContent of the five result spans
    currencyChart,    \* the module-level chart handle
    liveCharts,       \* number of Chart instances created and not destroyed
    conversions,      \* convertCurrency calls suspended at an await
    settled,          \* what the convertCurrency call that ended last saw
    lastRender        \* the last conversion rendered in full (SteadySpec only)

vars == <<amountInput, currencySelect, convertBtn, loadingDiv, resultDiv,
          errorDiv, chartSection, spans, currencyChart, liveCharts, conversions,
          settled, lastRender>>

-----------------------------------------------------------------------------
(* Bounds of the model *)

MaxSerieLen == 4

\* Longest serie of the API whose answer does not change (SteadySpec).
MaxRemoteLen == 2

\* Strings the user may have typed in the amount field.
AmountInputs ==
    { <<>>,
      <<"a", "b", "c">>,
      <<"0">>,
      <<"-", "5">>,
      <<"1", "0", "0", "0">>,
      <<" ", "1", "2", "a">> }

\* Values of the currency selector offered to the model ("" is the
\* placeholder option, also what clearForm writes).
CurrencyOptions == {"", "dolar", "uf"}

-----------------------------------------------------------------------------
(* JavaScript numbers *)

Num(n, d) == [num |-> n, den |-> d]

NaN == Num(0, 0)

IsNaN(x) == x.den = 0 /\ x.num = 0

IsFinite(x) == x.den > 0

Abs(i) == IF i < 0 THEN -i ELSE i

Sign(i) == IF i < 0 THEN -1 ELSE IF i > 0 THEN 1 ELSE 0

Pow10(d) == IF d = 0 THEN 1 ELSE IF d = 1 THEN 10 ELSE IF d = 2 THEN 100
            ELSE IF d = 3 THEN 1000 ELSE 10000

\* The comparison written the wrong way round.
LeqZero_Flipped(x) == ~IsNaN(x) /\ x.num >= 0

\* x <= 0 in JavaScript (false for NaN).
LeqZero(x) == ~IsNaN(x) /\ x.num <= 0

\* !x for a number: true for NaN and for 0.
Falsy(x) == x.num = 0

\* x / y in JavaScript, for y not NaN.
Divide(x, y) ==
    IF ~IsFinite(x) \/ IsNaN(y) THEN NaN
    ELSE IF y.num = 0 THEN Num(Sign(x.num), 0)
    ELSE IF ~IsFinite(y) THEN Num(0, 1)
    ELSE Num(x.num * y.den * Sign(y.num), x.den * Abs(y.num))

-----------------------------------------------------------------------------
(* parseFloat *)

Digits == {"0", "1", "2", "3", "4", "5", "6", "7", "8", "9"}

DigitValue(c) ==
    CASE c = "0" -> 0 [] c = "1" -> 1 [] c = "2" -> 2 [] c = "3" -> 3
      [] c = "4" -> 4 [] c = "5" -> 5 [] c = "6" -> 6 [] c = "7" -> 7
      [] c = "8" -> 8 [] c = "9" -> 9

RECURSIVE TrimStart(_)
TrimStart(s) ==
    IF s # <<>> /\ Head(s) = " " THEN TrimStart(Tail(s)) ELSE s

RECURSIVE DigitPrefix(_)
DigitPrefix(s) ==
    IF s # <<>> /\ Head(s) \in Digits
    THEN <<Head(s)>> \o DigitPrefix(Tail(s))
    ELSE <<>>

RECURSIVE DigitsValue(_)
DigitsValue(ds) ==
    IF ds = <<>> THEN 0
    ELSE 10 * DigitsValue(SubSeq(ds, 1, Len(ds) - 1)) + DigitValue(ds[Len(ds)])

\* parseFloat(str): leading white space skipped, an optional sign, the
\* longest decimal literal that follows; NaN when there is none.
parseFloat(str) ==
    LET s      == TrimStart(str)
        signed == s # <<>> /\ Head(s) \in {"-", "+"}
        sgn    == IF s # <<>> /\ Head(s) = "-" THEN -1 ELSE 1
        body   == IF signed THEN Tail(s) ELSE s
        ip     == DigitPrefix(body)
        rest   == SubSeq(body, Len(ip) + 1, Len(body))
        fp     == IF rest # <<>> /\ Head(rest) = "."
                  THEN DigitPrefix(Tail(rest)) ELSE <<>>
    IN  IF ip = <<>> /\ fp = <<>> THEN NaN
        ELSE Num(sgn * (DigitsValue(ip) * Pow10(Len(fp)) + DigitsValue(fp)),
                 Pow10(Len(fp)))

-----------------------------------------------------------------------------
(* Formatting *)

\* Intl.NumberFormat rounds half away from zero to the requested digits.
RoundHalfExpand(x, decimals) ==
    Sign(x.num) * ((2 * Abs(x.num) * Pow10(decimals) + x.den) \div (2 * x.den))

\* formatNumber(number, decimals): the number in units of 10^-decimals with
\* the number of fraction digits shown; non-finite values render as a word.
formatNumber(number, decimals) ==
    IF IsFinite(number)
    THEN [special |-> "", scaled |-> RoundHalfExpand(number, decimals),
          decimals |-> decimals]
    ELSE [special |-> IF number.num > 0 THEN "Infinity"
                      ELSE IF number.num < 0 THEN "-Infinity" ELSE "NaN",
          scaled |-> 0, decimals |-> decimals]

currencyNames(currency) ==
    CASE currency = "dolar" -> "Dolar Americano (USD)"
      [] currency = "euro" -> "Euro (EUR)"
      [] currency = "uf" -> "Unidad de Fomento (UF)"
      [] currency = "utm" -> "Unidad Tributaria Mensual (UTM)"
      [] currency = "dolar_intercambio" -> "Dolar Intercambio"
      [] OTHER -> "undefined"

toUpperCase(str) ==
    CASE str = "libra" -> "LIBRA"
      [] str = "yen" -> "YEN"
      [] OTHER -> str

getCurrencySymbol(currency) ==
    CASE currency = "dolar" -> "USD"
      [] currency = "dolar_intercambio" -> "USD"
      [] currency = "euro" -> "EUR"
      [] currency = "uf" -> "UF"
      [] currency = "utm" -> "UTM"
      [] OTHER -> toUpperCase(currency)

\* formatConvertedAmount: "<number> <symbol>" for uf and utm,
\* "<symbol> <number>" otherwise.
formatConvertedAmount(amount, currency) ==
    LET symbol == getCurrencySymbol(currency)
    IN  IF currency = "uf" \/ currency = "utm"
        THEN [symbolFirst |-> FALSE, symbol |-> symbol,
              number |-> formatNumber(amount, 4)]
        ELSE [symbolFirst |-> TRUE, symbol |-> symbol,
              number |-> formatNumber(amount, 2)]

getCurrencyColors(currency) ==
    CASE currency = "dolar" -> [border |-> "#2e7d32"]
      [] currency = "dolar_intercambio" -> [border |-> "#1976d2"]
      [] currency = "euro" -> [border |-> "#7b1fa2"]
      [] currency = "uf" -> [border |-> "#d32f2f"]
      [] currency = "utm" -> [border |-> "#f57c00"]
      [] OTHER -> [border |-> "#666"]

\* new Date(fecha).toLocaleDateString('es-CL'): day, month and year.  A
\* fecha is a day number.
DateText(fecha) == [day |-> fecha]

\* The chart label: short weekday, day and short month.
ChartLabel(fecha) == [weekday |-> fecha % 7, day |-> fecha]

calculateConversion(amount, exchangeRate, currency) ==
    Divide(amount, exchangeRate)

-----------------------------------------------------------------------------
(* The remote API *)

\* An element of the serie: { fecha, valor }.
Obs(f, v) == [fecha |-> f, valor |-> v]

\* Observations the API may return: a plain rate with decimals (950.77 on
\* day 3) and a zero rate (on day 2).
Observations ==
    { Obs(3, Num(95077, 100)), Obs(2, Num(0, 1)) }

RECURSIVE SeqsUpTo(_, _)
SeqsUpTo(S, n) ==
    IF n = 0 THEN { <<>> }
    ELSE LET shorter == SeqsUpTo(S, n - 1)
         IN  shorter \cup { Append(s, x) : s \in shorter, x \in S }

Series == SeqsUpTo(Observations, MaxSerieLen)

\* What `await response.json()` may give: a rejection (the body is not
\* JSON), a body without a serie field, or a body with a serie.
Bodies ==
    { [parsed |-> FALSE, hasSerie |-> FALSE, serie |-> <<>>],
      [parsed |-> TRUE, hasSerie |-> FALSE, serie |-> <<>>] }
    \cup { [parsed |-> TRUE, hasSerie |-> TRUE, serie |-> s] : s \in Series }

\* What `await fetch(url)` may give.
FetchOutcomes == {"rejected", "notOk", "ok"}

-----------------------------------------------------------------------------
(* Messages *)

MsgInvalidAmount == "Por favor, ingresa un monto valido mayor a 0."

MsgNoCurrency == "Por favor, selecciona una moneda de destino."

MsgGeneric == "Error al obtener los datos de conversion. Verifica tu conexion a internet e intenta nuevamente."

-----------------------------------------------------------------------------
(* Showing and hiding the regions *)

\* The submit button left enabled.
showLoading_NoDisable ==
    /\ loadingDiv' = [hidden |-> FALSE]
    /\ convertBtn' = convertBtn

showLoading ==
    /\ loadingDiv' = [hidden |-> FALSE]
    /\ convertBtn' = [disabled |-> TRUE]

\* The submit button left disabled.
hideLoading_KeepsDisabled ==
    /\ loadingDiv' = [hidden |-> TRUE]
    /\ convertBtn' = convertBtn

hideLoading ==
    /\ loadingDiv' = [hidden |-> TRUE]
    /\ convertBtn' = [disabled |-> FALSE]

showResult == resultDiv' = [hidden |-> FALSE]

hideResult == resultDiv' = [hidden |-> TRUE]

showError(message) == errorDiv' = [hidden |-> FALSE, text |-> message]

\* The error region is left as it is.
hideError_Keeps == UNCHANGED errorDiv

hideError == errorDiv' = [errorDiv EXCEPT !.hidden = TRUE]

showChart == chartSection' = [hidden |-> FALSE]

hideChart == chartSection' = [hidden |-> TRUE]

-----------------------------------------------------------------------------
(* The result spans *)

BlankNumber == [special |-> "blank", scaled |-> 0, decimals |-> 0]

BlankSpans ==
    [originalAmount  |-> BlankNumber,
     targetCurrency  |-> "",
     exchangeRate    |-> BlankNumber,
     convertedAmount |-> [symbolFirst |-> FALSE, symbol |-> "",
                          number |-> BlankNumber],
     updateDate      |-> DateText(0)]

displayResult(originalAmount, currency, exchangeRate, convertedAmount, updateDate) ==
    /\ spans' = [originalAmount  |-> formatNumber(originalAmount, 0),
                 targetCurrency  |-> currencyNames(currency),
                 exchangeRate    |-> formatNumber(exchangeRate, 0),
                 convertedAmount |-> formatConvertedAmount(convertedAmount, currency),
                 updateDate      |-> updateDate]
    /\ showResult

-----------------------------------------------------------------------------
(* The chart *)

\* currencyChart = null
NoChart ==
    [exists |-> FALSE, destroyed |-> FALSE, labels |-> <<>>, values |-> <<>>,
     datasetLabel |-> "", borderColor |-> ""]

Min(a, b) == IF a < b THEN a ELSE b

\* Array.prototype.slice(0, n)
Slice(seq, n) == SubSeq(seq, 1, Min(n, Len(seq)))

\* Array.prototype.reverse
Reverse(seq) == [i \in 1..Len(seq) |-> seq[Len(seq) + 1 - i]]

\* chart.destroy(): the instance is released (once).
Destroy(chart) == [chart EXCEPT !.destroyed = TRUE]

LiveAfterDestroy(chart) ==
    IF chart.exists /\ ~chart.destroyed THEN liveCharts - 1 ELSE liveCharts

\* The three elements left newest first.
last3Days_NoReverse(serie) == SubSeq(serie, 1, IF Len(serie) < 3 THEN Len(serie) ELSE 3)

\* serie.slice(0, 3).reverse()
last3Days(serie) == Reverse(Slice(serie, 3))

\* createChart throws, after it has destroyed the previous chart, when the
\* canvas or the Chart constructor is not available (chartEnv = FALSE).
ChartThrows(serie, chartEnv) == ~chartEnv

\* The previous chart is not destroyed before the new one is created.
createChart_NoDestroy(currency, serie, chartEnv) ==
    LET items  == last3Days(serie)
    IN  IF ChartThrows(serie, chartEnv)
        THEN UNCHANGED <<currencyChart, liveCharts, chartSection>>
        ELSE /\ currencyChart' =
                    [exists |-> TRUE, destroyed |-> FALSE,
                     labels |-> [i \in 1..Len(items) |-> ChartLabel(items[i].fecha)],
                     values |-> [i \in 1..Len(items) |-> items[i].valor],
                     datasetLabel |-> currencyNames(currency),
                     borderColor |-> getCurrencyColors(currency).border]
             /\ liveCharts' = liveCharts + 1
             /\ chartSection' = [hidden |-> FALSE]

createChart(currency, serie, chartEnv) ==
    LET items  == last3Days(serie)
        labels == [i \in 1..Len(items) |-> ChartLabel(items[i].fecha)]
        values == [i \in 1..Len(items) |-> items[i].valor]
        prior  == IF currencyChart.exists THEN Destroy(currencyChart)
                  ELSE currencyChart
        live   == IF currencyChart.exists THEN LiveAfterDestroy(currencyChart)
                  ELSE liveCharts
    IN  IF ChartThrows(serie, chartEnv)
        THEN /\ currencyChart' = prior
             /\ liveCharts' = live
             /\ UNCHANGED chartSection
        ELSE /\ currencyChart' =
                    [exists |-> TRUE, destroyed |-> FALSE,
                     labels |-> labels, values |-> values,
                     datasetLabel |-> currencyNames(currency),
                     borderColor |-> getCurrencyColors(currency).border]
             /\ liveCharts' = live + 1
             /\ showChart

\* The chart is left alone.
destroyAndClearChart_Keeps == UNCHANGED <<currencyChart, liveCharts>>

\* if (currencyChart) { currencyChart.destroy(); currencyChart = null; }
destroyAndClearChart ==
    IF currencyChart.exists
    THEN /\ liveCharts' = LiveAfterDestroy(currencyChart)
         /\ currencyChart' = NoChart
    ELSE UNCHANGED <<currencyChart, liveCharts>>

-----------------------------------------------------------------------------
(* convertCurrency *)

\* How the last convertCurrency call ended, until the next one starts: its
\* arguments, the serie it read (empty when it read none) and the way it
\* left the try block.
Settled(c, outcome, serie) ==
    [outcome |-> outcome, amount |-> c.amount, currency |-> c.currency,
     serie |-> serie]

NothingSettled ==
    [outcome |-> "none", amount |-> NaN, currency |-> "", serie |-> <<>>]

\* The chart region left as it is when a conversion starts.
convertCurrency_NoHideChart(amount, currency) ==
    /\ loadingDiv' = [hidden |-> FALSE]
    /\ convertBtn' = [disabled |-> TRUE]
    /\ errorDiv' = [errorDiv EXCEPT !.hidden = TRUE]
    /\ resultDiv' = [hidden |-> TRUE]
    /\ conversions' = conversions \cup
           { [amount |-> amount, currency |-> currency, stage |-> "fetch"] }
    /\ settled' = [outcome |-> "none", amount |-> NaN, currency |-> "",
                   serie |-> <<>>]
    /\ UNCHANGED <<spans, currencyChart, liveCharts, chartSection>>

\* convertCurrency up to `await fetch(...)`: the request is issued and the
\* call is suspended.
convertCurrency(amount, currency) ==
    /\ showLoading
    /\ hideError
    /\ hideResult
    /\ hideChart
    /\ conversions' = conversions \cup
           { [amount |-> amount, currency |-> currency, stage |-> "fetch"] }
    /\ settled' = NothingSettled
    /\ UNCHANGED <<spans, currencyChart, liveCharts>>

\* hideLoading() missing from the failure path.
catchAndFinally_NoCleanup(c) ==
    /\ errorDiv' = [hidden |-> FALSE, text |-> MsgGeneric]
    /\ UNCHANGED <<loadingDiv, convertBtn>>
    /\ conversions' = conversions \ {c}

\* catch { showError(generic) } finally { hideLoading() }
catchAndFinally(c) ==
    /\ showError(MsgGeneric)
    /\ hideLoading
    /\ conversions' = conversions \ {c}

\* The body of the try block throws before displayResult: the response body
\* is not JSON, has no serie, or has an empty serie.
DataFailure(body) ==
    \/ ~body.parsed
    \/ ~body.hasSerie
    \/ Len(body.serie) = 0

\* The oldest element taken for the latest one.
latestOf_Last(serie) == serie[Len(serie)]

\* data.serie[0]
latestOf(serie) == serie[1]

\* A request that failed is issued again from the catch block.
fetchSettled_Retry(c, outcome) ==
    IF outcome = "ok"
    THEN /\ conversions' = (conversions \ {c}) \cup {[c EXCEPT !.stage = "json"]}
         /\ UNCHANGED <<amountInput, currencySelect, convertBtn, loadingDiv,
                        resultDiv, errorDiv, chartSection, spans, currencyChart,
                        liveCharts, settled>>
    ELSE /\ showError(MsgGeneric)
         /\ hideLoading
         /\ conversions' = (conversions \ {c}) \cup {[c EXCEPT !.stage = "fetch"]}
         /\ settled' = Settled(c, "transport", <<>>)
         /\ UNCHANGED <<amountInput, currencySelect, resultDiv, chartSection,
                        spans, currencyChart, liveCharts>>

\* The fetch promise settles: a rejection or a non-ok status ends the call
\* in the catch block, an ok response suspends it at `await response.json()`.
fetchSettled(c, outcome) ==
    IF outcome = "ok"
    THEN /\ conversions' = (conversions \ {c}) \cup {[c EXCEPT !.stage = "json"]}
         /\ UNCHANGED <<amountInput, currencySelect, convertBtn, loadingDiv,
                        resultDiv, errorDiv, chartSection, spans, currencyChart,
                        liveCharts, settled>>
    ELSE /\ catchAndFinally(c)
         /\ settled' = Settled(c, "transport", <<>>)
         /\ UNCHANGED <<amountInput, currencySelect, resultDiv, chartSection,
                        spans, currencyChart, liveCharts>>

\* The response is rendered for what the form holds when it arrives.
jsonSettled_CurrentForm(c, body, chartEnv) ==
    IF DataFailure(body)
    THEN /\ settled' = Settled(c, "data", <<>>)
         /\ catchAndFinally(c)
         /\ UNCHANGED <<amountInput, currencySelect, resultDiv, chartSection,
                        spans, currencyChart, liveCharts>>
    ELSE LET amount          == parseFloat(amountInput)
             currency        == currencySelect
             latestValue     == latestOf(body.serie)
             exchangeRate    == latestValue.valor
             updateDate      == DateText(latestValue.fecha)
             convertedAmount == calculateConversion(amount, exchangeRate, currency)
         IN  /\ settled' = Settled(c, IF ChartThrows(body.serie, chartEnv)
                                      THEN "chart" ELSE "ok", body.serie)
             /\ displayResult(amount, currency, exchangeRate,
                              convertedAmount, updateDate)
             /\ createChart(currency, body.serie, chartEnv)
             /\ IF ChartThrows(body.serie, chartEnv)
                THEN showError(MsgGeneric)
                ELSE UNCHANGED errorDiv
             /\ hideLoading
             /\ conversions' = conversions \ {c}
             /\ UNCHANGED <<amountInput, currencySelect>>

\* The json promise settles: the rest of convertCurrency runs to its end
\* (createChart has no await of its own, so nothing interleaves).
jsonSettled(c, body, chartEnv) ==
    IF DataFailure(body)
    THEN /\ settled' = Settled(c, "data", <<>>)
         /\ catchAndFinally(c)
         /\ UNCHANGED <<amountInput, currencySelect, resultDiv, chartSection,
                        spans, currencyChart, liveCharts>>
    ELSE LET latestValue     == latestOf(body.serie)
             exchangeRate    == latestValue.valor
             updateDate      == DateText(latestValue.fecha)
             convertedAmount == calculateConversion(c.amount, exchangeRate, c.currency)
         IN  /\ settled' = Settled(c, IF ChartThrows(body.serie, chartEnv)
                                      THEN "chart" ELSE "ok", body.serie)
             /\ displayResult(c.amount, c.currency, exchangeRate,
                              convertedAmount, updateDate)
             /\ createChart(c.currency, body.serie, chartEnv)
             /\ IF ChartThrows(body.serie, chartEnv)
                THEN showError(MsgGeneric)
                ELSE UNCHANGED errorDiv
             /\ hideLoading
             /\ conversions' = conversions \ {c}
             /\ UNCHANGED <<amountInput, currencySelect>>

-----------------------------------------------------------------------------
(* Event handlers *)

\* A rejected submission hides the result of the previous conversion.
handleConversion_HidesResult ==
    LET amount           == parseFloat(amountInput)
        selectedCurrency == currencySelect
    IN  IF Falsy(amount) \/ LeqZero(amount) \/ selectedCurrency = ""
        THEN /\ showError(IF Falsy(amount) \/ LeqZero(amount)
                          THEN MsgInvalidAmount ELSE MsgNoCurrency)
             /\ hideResult
             /\ UNCHANGED <<amountInput, currencySelect, convertBtn, loadingDiv,
                            chartSection, spans, currencyChart,
                            liveCharts, conversions, settled>>
        ELSE /\ convertCurrency(amount, selectedCurrency)
             /\ UNCHANGED <<amountInput, currencySelect>>

handleConversion ==
    LET amount           == parseFloat(amountInput)
        selectedCurrency == currencySelect
    IN  IF Falsy(amount) \/ LeqZero(amount)
        THEN /\ showError(MsgInvalidAmount)
             /\ UNCHANGED <<amountInput, currencySelect, convertBtn, loadingDiv,
                            resultDiv, chartSection, spans, currencyChart,
                            liveCharts, conversions, settled>>
        ELSE IF selectedCurrency = ""
        THEN /\ showError(MsgNoCurrency)
             /\ UNCHANGED <<amountInput, currencySelect, convertBtn, loadingDiv,
                            resultDiv, chartSection, spans, currencyChart,
                            liveCharts, conversions, settled>>
        ELSE /\ convertCurrency(amount, selectedCurrency)
             /\ UNCHANGED <<amountInput, currencySelect>>

clearForm ==
    /\ amountInput' = <<>>
    /\ currencySelect' = ""
    /\ hideResult
    /\ hideError
    /\ hideChart
    /\ destroyAndClearChart
    /\ UNCHANGED <<convertBtn, loadingDiv, spans, conversions, settled>>

\* The listener does not hide the error.
onAmountInput_NoHide ==
    UNCHANGED <<currencySelect, convertBtn, loadingDiv, resultDiv, errorDiv,
                chartSection, spans, currencyChart, liveCharts, conversions,
                settled>>

\* amountInput.addEventListener('input', hideError)
onAmountInput ==
    /\ hideError
    /\ UNCHANGED <<currencySelect, convertBtn, loadingDiv, resultDiv,
                   chartSection, spans, currencyChart, liveCharts, conversions,
                   settled>>

\* The listener hides the result as well.
onCurrencyChange_HidesResult ==
    /\ errorDiv' = [errorDiv EXCEPT !.hidden = TRUE]
    /\ chartSection' = [hidden |-> TRUE]
    /\ resultDiv' = [hidden |-> TRUE]
    /\ destroyAndClearChart
    /\ UNCHANGED <<amountInput, convertBtn, loadingDiv, spans, conversions,
                   settled>>

\* currencySelect.addEventListener('change', ...)
onCurrencyChange ==
    /\ hideError
    /\ hideChart
    /\ destroyAndClearChart
    /\ UNCHANGED <<amountInput, convertBtn, loadingDiv, resultDiv, spans,
                   conversions, settled>>

-----------------------------------------------------------------------------
(* The state machine *)

\* Nothing has been rendered yet.
NoRender ==
    [done |-> FALSE, repeated |-> FALSE, amount |-> NaN, currency |-> "",
     serie |-> <<>>, spans |-> BlankSpans, view |-> <<>>]

Init ==
    /\ amountInput = <<>>
    /\ currencySelect = ""
    /\ convertBtn = [disabled |-> FALSE]
    /\ loadingDiv = [hidden |-> TRUE]
    /\ resultDiv = [hidden |-> TRUE]
    /\ errorDiv = [hidden |-> TRUE, text |-> ""]
    /\ chartSection = [hidden |-> TRUE]
    /\ spans = BlankSpans
    /\ currencyChart = NoChart
    /\ liveCharts = 0
    /\ conversions = {}
    /\ settled = NothingSettled
    /\ lastRender = NoRender

\* The form is submitted.  The browser does not submit a form through a
\* disabled submit button (neither on a click nor on Enter in a field).
Submit ==
    /\ ~convertBtn.disabled
    /\ handleConversion
    /\ UNCHANGED lastRender

\* The user edits the amount field.
EditAmount ==
    \E v \in AmountInputs :
        /\ v # amountInput
        /\ amountInput' = v
        /\ onAmountInput
        /\ UNCHANGED lastRender

\* The user picks another option of the currency selector.
ChangeCurrency ==
    \E code \in CurrencyOptions :
        /\ code # currencySelect
        /\ currencySelect' = code
        /\ onCurrencyChange
        /\ UNCHANGED lastRender

ClearForm == clearForm /\ UNCHANGED lastRender

FetchSettles ==
    \E c \in conversions :
        /\ c.stage = "fetch"
        /\ \E outcome \in FetchOutcomes : fetchSettled(c, outcome)
        /\ UNCHANGED lastRender

JsonSettles ==
    \E c \in conversions :
        /\ c.stage = "json"
        /\ \E body \in Bodies, chartEnv \in BOOLEAN : jsonSettled(c, body, chartEnv)
        /\ UNCHANGED lastRender

Next ==
    \/ Submit
    \/ EditAmount
    \/ ChangeCurrency
    \/ ClearForm
    \/ FetchSettles
    \/ JsonSettles

Spec == Init /\ [][Next]_vars

\* A fair network: every request is eventually answered.
FairSpec == Spec /\ WF_vars(FetchSettles) /\ WF_vars(JsonSettles)

\* Which regions are hidden: loading, result, error, chart.
ViewOf(loading, result, error, chart) ==
    <<loading.hidden, result.hidden, error.hidden, chart.hidden>>

\* The series a remote that does not change may serve.
RemoteSeries == SeqsUpTo(Observations, MaxRemoteLen) \ { <<>> }

\* The json promise settles against a remote whose serie does not change:
\* once a conversion has been rendered in full, every later response
\* carries the serie that one carried.  The conversion rendered is kept
\* with the view it left, and marked when it repeats the one before it.
SteadyJsonSettles ==
    \E c \in conversions :
        /\ c.stage = "json"
        /\ \E serie \in (IF lastRender.done THEN {lastRender.serie} ELSE RemoteSeries),
              chartEnv \in BOOLEAN :
              /\ jsonSettled(c, [parsed |-> TRUE, hasSerie |-> TRUE, serie |-> serie],
                             chartEnv)
              /\ lastRender' =
                     IF ChartThrows(serie, chartEnv)
                     THEN lastRender
                     ELSE [done     |-> TRUE,
                           repeated |-> /\ lastRender.done
                                        /\ lastRender.amount = c.amount
                                        /\ lastRender.currency = c.currency,
                           amount   |-> c.amount,
                           currency |-> c.currency,
                           serie    |-> serie,
                           spans    |-> spans',
                           view     |-> ViewOf(loadingDiv', resultDiv', errorDiv',
                                               chartSection')]

SteadyNext ==
    \/ Submit
    \/ EditAmount
    \/ ChangeCurrency
    \/ ClearForm
    \/ FetchSettles
    \/ SteadyJsonSettles

\* The widget against a remote whose serie does not change.
SteadySpec == Init /\ [][SteadyNext]_vars

-----------------------------------------------------------------------------
(* Properties *)

\* A convertCurrency call ran to its end in this step.
Ended == Cardinality(conversions') < Cardinality(conversions)

\* The submitted amount does not parse to a number or is not positive, or
\* no currency is selected.
InvalidForm ==
    LET amount == parseFloat(amountInput)
    IN  \/ amount.den = 0
        \/ amount.num <= 0
        \/ currencySelect = ""

ValidationMessages == {MsgInvalidAmount, MsgNoCurrency}

\* C1: a submission whose amount is non-numeric or <= 0, or whose currency
\* code is empty, issues no request and leaves the error region visible
\* with a validation message.
C1_InvalidSubmissionRejected ==
    [][(Submit /\ InvalidForm) =>
          /\ conversions' = conversions
          /\ loadingDiv' = loadingDiv
          /\ ~errorDiv'.hidden
          /\ errorDiv'.text \in ValidationMessages]_vars

C1_Witness ==
    /\ ~errorDiv.hidden
    /\ errorDiv.text = MsgInvalidAmount
    /\ amountInput = <<"-", "5">>
    /\ conversions = {}

\* The rendered number shows x to the given number of fraction digits: no
\* number with that many digits is nearer to x.
Shows(rendered, x, decimals) ==
    /\ rendered.decimals = decimals
    /\ IF x.den = 0
       THEN rendered.special = (IF x.num > 0 THEN "Infinity"
                                ELSE IF x.num < 0 THEN "-Infinity" ELSE "NaN")
       ELSE /\ rendered.special = ""
            /\ 2 * Abs(rendered.scaled * x.den - x.num * Pow10(decimals)) <= x.den

\* The rendered number shows the quotient a / v (a finite and positive).
ShowsQuotient(rendered, a, v, decimals) ==
    /\ rendered.decimals = decimals
    /\ IF v.num = 0
       THEN rendered.special = "Infinity"
       ELSE /\ rendered.special = ""
            /\ 2 * Abs(rendered.scaled * a.den * v.num
                       - a.num * v.den * Pow10(decimals))
                 <= Abs(a.den * v.num)

\* A call that got as far as displayResult.
Rendered == settled.outcome \in {"ok", "chart"}

\* C2: after a successful response the converted amount rendered is the
\* submitted amount divided by the valor of the first element of the serie,
\* and the rate rendered is that valor (each at the precision of its
\* field); the other elements of the serie play no part.
C2_ConvertedFromFirstElement ==
    Rendered =>
        LET rate == settled.serie[1].valor
            out  == spans.convertedAmount.number
        IN  /\ Shows(spans.exchangeRate, rate, 0)
            /\ ShowsQuotient(out, settled.amount, rate, out.decimals)

C2_Witness ==
    /\ settled.outcome = "ok"
    /\ Len(settled.serie) >= 2
    /\ settled.serie[1].valor.num > 0
    /\ settled.serie[Len(settled.serie)].valor.num = 0
    /\ spans.convertedAmount.number.scaled > 0

\* C3: a conversion that ends in a transport failure or a data failure
\* leaves the error region visible with the generic message, and the
\* loading indicator, the result and the chart regions hidden.
C3_FailureView ==
    [][(Ended /\ settled'.outcome \in {"transport", "data"}) =>
          /\ ~errorDiv'.hidden
          /\ errorDiv'.text = MsgGeneric
          /\ loadingDiv'.hidden
          /\ resultDiv'.hidden
          /\ chartSection'.hidden]_vars

C3_Witness ==
    /\ settled.outcome = "data"
    /\ ~errorDiv.hidden
    /\ errorDiv.text = MsgGeneric
    /\ currencyChart.exists

\* C4: the error region is never visible together with the result or the
\* chart region, and none of the three is visible while the loading
\* indicator is.
C4_RegionsExclusive ==
    /\ ~errorDiv.hidden => (resultDiv.hidden /\ chartSection.hidden)
    /\ ~loadingDiv.hidden =>
           (resultDiv.hidden /\ chartSection.hidden /\ errorDiv.hidden)

\* C5: every conversion that is answered ends with the loading indicator
\* hidden and the submit button enabled, and under a fair network the
\* loading state always leads to a state that is not loading.
C5_LoadingCleared ==
    /\ [][Ended => (loadingDiv'.hidden /\ ~convertBtn'.disabled)]_vars
    /\ (~loadingDiv.hidden ~> loadingDiv.hidden)

C5_Witness ==
    /\ settled.outcome = "chart"
    /\ loadingDiv.hidden
    /\ ~convertBtn.disabled

\* C6: the loading indicator is visible exactly while a conversion request
\* is outstanding, and the submit button is disabled exactly while the
\* loading indicator is visible.
C6_LoadingIffOutstanding ==
    /\ ~loadingDiv.hidden <=> conversions # {}
    /\ convertBtn.disabled <=> ~loadingDiv.hidden

C6_Witness ==
    /\ ~loadingDiv.hidden
    /\ convertBtn.disabled
    /\ \E c \in conversions : c.stage = "fetch"

\* C7: at most one conversion request is outstanding at any time.
C7_NoOverlap == Cardinality(conversions) <= 1

C7_Witness ==
    /\ \E c \in conversions : c.stage = "json" /\ c.currency # currencySelect
    /\ convertBtn.disabled
    /\ parseFloat(amountInput).num > 0

\* C8: at most one chart instance is alive at any time: an instance still
\* alive is the one the handle holds, every earlier one has been destroyed.
C8_OneChart ==
    /\ liveCharts <= 1
    /\ liveCharts = 1 => (currencyChart.exists /\ ~currencyChart.destroyed)

C8_Witness ==
    /\ liveCharts = 1
    /\ currencyChart.exists
    /\ ~chartSection.hidden
    /\ settled.outcome = "ok"

\* The chart's label/value pairs are the first min(3, n) elements of the
\* serie, oldest first.
ChartShows(chart, serie) ==
    LET n == IF Len(serie) >= 3 THEN 3 ELSE Len(serie)
    IN  /\ Len(chart.values) = n
        /\ Len(chart.labels) = n
        /\ \A i \in 1..n :
              /\ chart.values[i] = serie[n + 1 - i].valor
              /\ chart.labels[i] = ChartLabel(serie[n + 1 - i].fecha)

\* C9: the chart built from a serie of length >= 3 shows exactly its first
\* 3 elements in reversed order; from a serie of length 1 or 2, all its
\* elements in reversed order, without padding.
C9_ChartData ==
    (settled.outcome = "ok" /\ currencyChart.exists) =>
        ChartShows(currencyChart, settled.serie)

C9_Witness ==
    /\ settled.outcome = "ok"
    /\ currencyChart.exists
    /\ Len(settled.serie) > 3
    /\ Len(currencyChart.values) = 3
    /\ currencyChart.values[1] # currencyChart.values[3]
    /\ settled.serie[4] # settled.serie[3]

\* C10: after the user edits the amount field or changes the currency
\* selection the error region is hidden, whatever the view showed before.
C10_EditHidesError ==
    [][(amountInput' # amountInput \/ currencySelect' # currencySelect) =>
          errorDiv'.hidden]_vars

C10_Witness ==
    /\ errorDiv.hidden
    /\ errorDiv.text = MsgNoCurrency
    /\ currencySelect # ""
    /\ conversions = {}
    /\ settled.outcome = "none"

\* C11 as stated: the result and the chart regions stay as they are across
\* an edit of the amount and across a change of the currency selection.
C11_Original ==
    [][(EditAmount \/ ChangeCurrency) =>
          (resultDiv' = resultDiv /\ chartSection' = chartSection)]_vars

\* C11 (amended): the result region stays as it is across edits of the
\* amount and changes of the currency selection and is hidden only by a
\* submission or by clearForm; the chart region stays as it is across edits
\* of the amount, and is hidden by a change of the currency selection, by a
\* submission or by clearForm, and by nothing else.
C11_ResultPersists ==
    [][/\ EditAmount => (resultDiv' = resultDiv /\ chartSection' = chartSection)
       /\ ChangeCurrency => (resultDiv' = resultDiv /\ chartSection'.hidden)
       /\ (~resultDiv.hidden /\ resultDiv'.hidden) => (Submit \/ ClearForm)
       /\ (~chartSection.hidden /\ chartSection'.hidden) =>
              (Submit \/ ClearForm \/ ChangeCurrency)]_vars

C11_Witness ==
    /\ settled.outcome = "ok"
    /\ ~resultDiv.hidden
    /\ chartSection.hidden
    /\ currencySelect # settled.currency
    /\ currencySelect # ""

\* C12 as stated: no chart instance of an earlier request is alive after an
\* edit of the amount, after a change of the currency selection, or after a
\* later request has ended.
C12_Original ==
    [][/\ (EditAmount \/ ChangeCurrency) => liveCharts' = 0
       /\ Ended => (settled'.outcome = "ok" \/ liveCharts' = 0)]_vars

\* C12 (amended): the chart instance is destroyed by a change of the
\* currency selection, by clearForm, and by a later request that reaches
\* createChart; an edit of the amount, the start of a request and a request
\* that fails before createChart leave it as it is.
C12_ChartDestroyedWhen ==
    [][/\ (ChangeCurrency \/ ClearForm) =>
              (liveCharts' = 0 /\ ~currencyChart'.exists)
       /\ (Ended /\ settled'.outcome = "chart") => liveCharts' = 0
       /\ (Ended /\ settled'.outcome = "ok") =>
              (liveCharts' = 1 /\ currencyChart'.exists /\ ~currencyChart'.destroyed)
       /\ (EditAmount \/ Submit) =>
              (currencyChart' = currencyChart /\ liveCharts' = liveCharts)
       /\ (Ended /\ settled'.outcome \in {"transport", "data"}) =>
              (currencyChart' = currencyChart /\ liveCharts' = liveCharts)]_vars

C12_Witness ==
    /\ settled.outcome = "transport"
    /\ liveCharts = 1
    /\ currencyChart.exists
    /\ chartSection.hidden

\* C13: a failure while building the chart leaves the view a transport or
\* data failure of the same request would leave: the generic error visible,
\* and the loading indicator, the result and the chart regions hidden.
C13_ChartFailureLikeFetchFailure ==
    [][(Ended /\ settled'.outcome = "chart") =>
          /\ ~errorDiv'.hidden
          /\ errorDiv'.text = MsgGeneric
          /\ loadingDiv'.hidden
          /\ resultDiv'.hidden
          /\ chartSection'.hidden]_vars

\* The requests that have been issued and not yet answered.
Issued(cs) == {c \in cs : c.stage = "fetch"}

\* C15: a valid submission issues exactly one request, no other step issues
\* one, and the step in which a request fails ends its call without issuing
\* it again; so requests issued and valid submissions stay equal in number.
C15_OneRequestPerSubmission ==
    [][/\ (Submit /\ ~InvalidForm) =>
              /\ Cardinality(conversions') = Cardinality(conversions) + 1
              /\ Cardinality(Issued(conversions') \ conversions) = 1
       /\ ~(Submit /\ ~InvalidForm) => Issued(conversions') \subseteq Issued(conversions)
       /\ (settled' # settled /\ settled'.outcome \in {"transport", "data", "chart"}) =>
              /\ Cardinality(conversions') = Cardinality(conversions) - 1
              /\ Issued(conversions') = {}]_vars

C15_Witness ==
    /\ settled.outcome = "transport"
    /\ conversions = {}
    /\ ~errorDiv.hidden
    /\ ~convertBtn.disabled

\* C17: whenever the result is shown, the rate it was computed with is
\* positive.
C17_RatePositive ==
    (~resultDiv.hidden /\ Rendered) =>
        (latestOf(settled.serie).valor.num > 0 /\ latestOf(settled.serie).valor.den > 0)

\* C18: a submission rejected by validation changes the error region only.
C18_RejectionFrame ==
    [][(Submit /\ InvalidForm) =>
          UNCHANGED <<amountInput, currencySelect, convertBtn, loadingDiv,
                      resultDiv, chartSection, spans, currencyChart,
                      liveCharts, conversions>>]_vars

C18_Witness ==
    /\ ~errorDiv.hidden
    /\ errorDiv.text \in ValidationMessages
    /\ ~resultDiv.hidden
    /\ ~chartSection.hidden
    /\ currencyChart.exists

\* C19: while the chart region is visible the chart handle refers to a
\* chart that has not been destroyed.
C19_VisibleChartIsLive ==
    ~chartSection.hidden => (currencyChart.exists /\ ~currencyChart.destroyed)

C19_Witness ==
    /\ ~chartSection.hidden
    /\ currencyChart.exists
    /\ ~currencyChart.destroyed
    /\ settled.outcome = "ok"
    /\ parseFloat(amountInput) # settled.amount

\* C20: whenever the chart handle is not null it refers to a chart that has
\* not been destroyed, so destroy() is never called twice on an instance.
C20_HandleNeverDestroyed ==
    currencyChart.exists => ~currencyChart.destroyed

\* The fraction digits a rendered number shows: the infinity sign and "NaN"
\* carry none.
FractionDigits(rendered) ==
    IF rendered.special = "" THEN rendered.decimals ELSE 0

\* C16: the converted amount of uf and utm is rendered with 4 fraction
\* digits followed by the unit symbol, that of every other code with 2
\* fraction digits preceded by the unit symbol.
C16_ConvertedAmountFormat ==
    Rendered =>
        LET shown == spans.convertedAmount
        IN  /\ shown.symbol = getCurrencySymbol(settled.currency)
            /\ IF settled.currency \in {"uf", "utm"}
               THEN FractionDigits(shown.number) = 4 /\ ~shown.symbolFirst
               ELSE FractionDigits(shown.number) = 2 /\ shown.symbolFirst

\* C14: a conversion rendered in full that repeats the request of the
\* conversion rendered before it, the remote serie unchanged, leaves the
\* same five result fields and the same region visibility as that one did.
C14_Idempotent ==
    [][(/\ Ended
        /\ settled'.outcome = "ok"
        /\ lastRender.done
        /\ lastRender.amount = settled'.amount
        /\ lastRender.currency = settled'.currency
        /\ lastRender.serie = settled'.serie) =>
          /\ spans' = lastRender.spans
          /\ ViewOf(loadingDiv', resultDiv', errorDiv', chartSection') = lastRender.view]_vars

C14_Witness ==
    /\ lastRender.repeated
    /\ settled.outcome = "ok"
    /\ spans = lastRender.spans

\* C21: a request that succeeds renders the result and a visible chart for
\* the amount and the currency it was submitted with, whatever the form
\* holds when the response arrives; a change of the currency selection
\* while a request is in flight destroys and hides any existing chart.
C21_RendersSubmittedValues ==
    [][/\ (Ended /\ settled'.outcome = "ok") =>
              \A c \in conversions \ conversions' :
                  /\ ~resultDiv'.hidden
                  /\ ~chartSection'.hidden
                  /\ Shows(spans'.originalAmount, c.amount, 0)
                  /\ spans'.targetCurrency = currencyNames(c.currency)
                  /\ spans'.convertedAmount.symbol = getCurrencySymbol(c.currency)
                  /\ ShowsQuotient(spans'.convertedAmount.number, c.amount,
                                   settled'.serie[1].valor,
                                   IF c.currency \in {"uf", "utm"} THEN 4 ELSE 2)
                  /\ currencyChart'.exists
                  /\ ~currencyChart'.destroyed
                  /\ currencyChart'.datasetLabel = currencyNames(c.currency)
                  /\ currencyChart'.borderColor = getCurrencyColors(c.currency).border
                  /\ ChartShows(currencyChart', settled'.serie)
       /\ (ChangeCurrency /\ conversions # {}) =>
              (chartSection'.hidden /\ ~currencyChart'.exists /\ liveCharts' = 0)]_vars

C21_Witness ==
    /\ settled.outcome = "ok"
    /\ conversions = {}
    /\ ~resultDiv.hidden
    /\ ~chartSection.hidden
    /\ currencySelect # settled.currency
    /\ IsFinite(parseFloat(amountInput))
    /\ parseFloat(amountInput) # settled.amount
    /\ currencyChart.datasetLabel = currencyNames(settled.currency)
    /\ currencyChart.datasetLabel # currencyNames(currencySelect)

====
